---- MODULE Spec2Model ----
(***************************************************************************)
(* Model of the webwire request manager (package requestmanager):          *)
(* RequestManager.Create / deregister / Fulfill / Fail and                 *)
(* Request.AwaitReply, run by concurrent goroutines.                       *)
(*                                                                         *)
(* Caller goroutines each Create one request and then AwaitReply on it.    *)
(* Resolver goroutines (the transport's inbound side) each make one        *)
(* Fulfill or Fail call with an identifier and an argument of their        *)
(* choice. The context and the timer of each AwaitReply are environment    *)
(* events. A critical section of the manager's RWMutex is two steps: the   *)
(* acquisition together with the guarded map operation, and the release.   *)
(*                                                                         *)
(* The goroutines of a kind run the same code, so a behaviour is named     *)
(* once: caller c+1 enters Create after caller c has, and resolver r+1     *)
(* makes its call after resolver r has made its own.                       *)
(***************************************************************************)
EXTENDS Integers, Sequences, FiniteSets, TLC

\* ------------------------------------------------------------------ bounds
\* Number of caller goroutines (each: Create, then AwaitReply).
NumCallers == 2
\* Number of resolver goroutines (each: one Fulfill or Fail call).
NumResolvers == 2

Callers == 1..NumCallers
Resolvers == 1..NumResolvers

\* Arguments the resolvers pass: payloads to Fulfill, errors to Fail.
\* "nil" is Go's nil error.
Payloads == {"P1"}
Errors == {"E1", "nil"}

NoReq == 0
NoProc == <<"none", 0>>
CallerProc(c) == <<"caller", c>>
ResolverProc(r) == <<"resolver", r>>

\* ------------------------------------------------------- pure definitions
\* Capacity of the channel made for Request.reply: make(chan reply).
ReplyChanCap == 0

\* binary.LittleEndian.PutUint64 into the [8]byte RequestIdentifier.
RECURSIVE PutBytes(_, _)
PutBytes(n, k) == IF k = 0 THEN <<>> ELSE <<n % 256>> \o PutBytes(n \div 256, k - 1)

PutUint64(n) == PutBytes(n, 8)

\* The identifier read back as a little-endian unsigned value.
RECURSIVE Uint64(_)
Uint64(b) == IF b = <<>> THEN 0 ELSE Head(b) + 256 * Uint64(Tail(b))

\* Faulty variant of NextID: the counter is not incremented.
NextIDStuck(n) == n

\* manager.lastID++ (the 2^64 wraparound is out of reach of the bounds).
NextID(n) == n + 1

\* manager.pending[identifier] = newRequest
Register(tbl, identifier, req) ==
    [i \in (DOMAIN tbl) \cup {identifier} |-> IF i = identifier THEN req ELSE tbl[i]]

\* Faulty variant of Delete: the key is ignored and some entry is removed.
DeleteSome(tbl, identifier) ==
    IF DOMAIN tbl = {} THEN tbl
    ELSE [i \in (DOMAIN tbl) \ {CHOOSE k \in DOMAIN tbl : TRUE} |-> tbl[i]]

\* Faulty variant of Delete: the entry is left in the table.
DeleteNothing(tbl, identifier) == tbl

\* delete(manager.pending, identifier)
Delete(tbl, identifier) == [i \in (DOMAIN tbl) \ {identifier} |-> tbl[i]]

\* Faulty variant of Lookup: exists is not consulted, and an absent identifier
\* yields whichever request the table holds.
LookupAny(tbl, identifier) ==
    IF identifier \in DOMAIN tbl THEN tbl[identifier]
    ELSE IF DOMAIN tbl # {} THEN tbl[CHOOSE i \in DOMAIN tbl : TRUE]
    ELSE NoReq

\* req, exists := manager.pending[identifier]
Lookup(tbl, identifier) == IF identifier \in DOMAIN tbl THEN tbl[identifier] ELSE NoReq

\* A nil webwire.Payload.
NilPayload == <<"nil">>

\* The reply value Fulfill sends.
FulfillReply(payload) == [Reply |-> <<"EncodedPayload", payload>>, Error |-> "nil"]

\* Faulty variant of FailReply: the error is not put into the reply.
FailReplyDropsError(err) == [Reply |-> NilPayload, Error |-> "nil"]

\* The reply value Fail sends.
FailReply(err) == [Reply |-> NilPayload, Error |-> err]

ReplyOf(op, arg) == IF op = "Fulfill" THEN FulfillReply(arg) ELSE FailReply(arg)

EmptyPayload == <<"EncodedPayload", "empty">>

\* What AwaitReply returns on the three cases of its select.  The translated
\* context error (canceled or deadline exceeded) is written "Canceled".
CanceledResult == [payload |-> NilPayload, err |-> "Canceled"]
TimeoutResult == [payload |-> EmptyPayload, err |-> "Timeout"]
\* Faulty variant of ReplyResult: a nil payload is returned as it is.
ReplyResultPassesNil(rep) ==
    IF rep.Error # "nil" THEN [payload |-> NilPayload, err |-> rep.Error]
    ELSE [payload |-> rep.Reply, err |-> "nil"]

\* Faulty variant of ReplyResult: the nil check on the payload is inverted, so a
\* successful reply's payload is replaced by the empty one.
ReplyResultInverted(rep) ==
    IF rep.Error # "nil" THEN [payload |-> NilPayload, err |-> rep.Error]
    ELSE IF rep.Reply # NilPayload THEN [payload |-> EmptyPayload, err |-> "nil"]
    ELSE [payload |-> rep.Reply, err |-> "nil"]

\* The return of the reply case: the error if there is one, else the payload,
\* an empty payload standing in for a nil one.
ReplyResult(rep) ==
    IF rep.Error # "nil" THEN [payload |-> NilPayload, err |-> rep.Error]
    ELSE IF rep.Reply = NilPayload THEN [payload |-> EmptyPayload, err |-> "nil"]
    ELSE [payload |-> rep.Reply, err |-> "nil"]

NoResult == [payload |-> <<"none">>, err |-> "none"]
NoReply == [Reply |-> <<"none">>, Error |-> "none"]

\* Identifiers the transport may present: every counter value the callers
\* can be given, and 0, which Create never assigns.
CallIds == {PutUint64(n) : n \in 0..NumCallers}

\* ------------------------------------------------------------------ state
\* ------------------------------------------- resolver.Login: its values
\* api.UserType, and the type of a session nobody is logged in on.
UserTypes == {"guest", "user", "admin"}
UtGuest == "guest"

\* LoginParams the client may send.
Usernames == {"alice", "bob"}
Passwords == {"pw1", "pw2"}

\* What engine.AuthenticateUser may return: a user and its stored password,
\* or an error.
EngineUsers ==
    { [Identifier |-> "id1", Type |-> "user"],
      [Identifier |-> "id2", Type |-> "user"],
      [Identifier |-> "id3", Type |-> "admin"] }
StoredPasswords == {"hash1", "hash2"}
EngineErrors == {"ErrEngine"}

\* What connection.CreateSession may return.
SessionErrors == {"nil", "ErrSession"}

NoUser == [Identifier |-> "none", Type |-> "none"]
NoSessionInfo == [UserIdentifier |-> "none", UserType |-> "none"]

\* &sessinfo.SessionInfo{UserIdentifier: user.Identifier, UserType: user.Type}
SessionInfo(user) == [UserIdentifier |-> user.Identifier, UserType |-> user.Type]

\* A Login call about to run with its three arguments.
LoginCall(userType, username, password) ==
    [ pc |-> "start",
      session |-> [UserType |-> userType],
      params |-> [Username |-> username, Password |-> password],
      user |-> NoUser, actualPassword |-> "none", err |-> "none",
      matched |-> "none",
      calls |-> <<>>,
      created |-> NoSessionInfo,
      ret |-> "none" ]

\* No Login call.
NoLogin == [LoginCall(UtGuest, "alice", "pw1") EXCEPT !.pc = "idle"]

\* ---------------------------------- validator.MessageContents: its values
\* len(contents) is an int of 64 bits, the limits are uint32.  A length is
\* kept as wraps * 2^32 + low, so that uint32(length) is its low part.
MaxWraps == 1
MaxLow == 4
MaxLimit == 3
Lengths == [wraps : 0..MaxWraps, low : 0..MaxLow]
Limits == 0..MaxLimit

\* uint32(length)
Uint32(length) == length.low

\* The error MessageContents returns for a length under the two limits.
MessageContentsResult(length, min, max) ==
    IF Uint32(length) < min THEN "too short"
    ELSE IF Uint32(length) > max THEN "too long"
    ELSE "nil"

\* A MessageContents call about to run.
ValidationCall(length, min, max) ==
    [ pc |-> "start", length |-> length,
      MinMessageLength |-> min, MaxMessageLength |-> max, ret |-> "none" ]

\* No MessageContents call.
NoValidation == [ValidationCall([wraps |-> 0, low |-> 0], 0, 0) EXCEPT !.pc = "idle"]

VARIABLES
    lastID,       \* RequestManager.lastID
    pending,      \* RequestManager.pending: identifier -> request (its caller)
    lockW,        \* RequestManager.lock: the goroutine holding it for writing
    lockR,        \* RequestManager.lock: the goroutines holding it for reading
    cpc,          \* caller goroutine's position
    identifier,   \* Request.identifier of the caller's request (<<>> before Create)
    chanbuf,      \* Request.reply: the values buffered in the channel
    got,          \* AwaitReply's local: the reply received in its select
    result,       \* what AwaitReply returned
    ctxDone,      \* ctx.Done() of the caller's context is closed
    timerFired,   \* timeoutTimer of the caller's AwaitReply has elapsed
    lateSignal,   \* history: the context or timer fired after the reply was received
    rpc,          \* resolver goroutine's position
    rcall,        \* the resolver's call: op, identifier, arg
    rreq,         \* the call's local req: what its lookup found (NoReq: !exists)
    rret,         \* the resolver call's return value ("none" until it returns)
    login,        \* a resolver.Login call: its arguments, locals and return
    vld           \* a validator.MessageContents call: configuration, argument, return

vars == <<lastID, pending, lockW, lockR, cpc, identifier, chanbuf, got, result,
          ctxDone, timerFired, lateSignal, rpc, rcall, rreq, rret, login, vld>>

mgrVars == <<lastID, pending, lockW, lockR>>
callerVars == <<cpc, identifier, chanbuf, got, result, lateSignal>>
envVars == <<ctxDone, timerFired>>
resolverVars == <<rpc, rcall, rreq, rret>>
rmVars == <<mgrVars, callerVars, envVars, resolverVars>>
apiVars == <<login, vld>>

NoCall == [op |-> "none", id |-> <<>>, arg |-> "none"]

\* NewRequestManager, and goroutines that have not started.
NewRequestManager ==
    /\ lastID = 0
    /\ pending = <<>>
    /\ lockW = NoProc
    /\ lockR = {}
    /\ cpc = [c \in Callers |-> "start"]
    /\ identifier = [c \in Callers |-> <<>>]
    /\ chanbuf = [c \in Callers |-> <<>>]
    /\ got = [c \in Callers |-> NoReply]
    /\ result = [c \in Callers |-> NoResult]
    /\ ctxDone = [c \in Callers |-> FALSE]
    /\ timerFired = [c \in Callers |-> FALSE]
    /\ lateSignal = [c \in Callers |-> FALSE]
    /\ rpc = [r \in Resolvers |-> "idle"]
    /\ rcall = [r \in Resolvers |-> NoCall]
    /\ rreq = [r \in Resolvers |-> NoReq]
    /\ rret = [r \in Resolvers |-> "none"]

\* The request manager on its own: no Login and no MessageContents call is made.
Init ==
    /\ NewRequestManager
    /\ login = NoLogin
    /\ vld = NoValidation

\* sync.RWMutex: Lock needs no holder at all, RLock needs no writer.
CanLock == lockW = NoProc /\ lockR = {}
CanRLock == lockW = NoProc

\* ---------------------------------------------------- RequestManager.Create
\* manager.lock.Lock(); lastID++; encode; register the new request.
CreateRegister(c) ==
    /\ cpc[c] = "start"
    /\ \A b \in Callers : b < c => cpc[b] # "start"
    /\ CanLock
    /\ lockW' = CallerProc(c)
    /\ lastID' = NextID(lastID)
    /\ identifier' = [identifier EXCEPT ![c] = PutUint64(lastID')]
    /\ pending' = Register(pending, identifier'[c], c)
    /\ cpc' = [cpc EXCEPT ![c] = "createUnlock"]
    /\ UNCHANGED <<lockR, chanbuf, got, result, lateSignal, envVars, resolverVars>>
    /\ UNCHANGED apiVars

\* manager.lock.Unlock(); return newRequest
CreateReturn(c) ==
    /\ cpc[c] = "createUnlock"
    /\ lockW' = NoProc
    /\ cpc' = [cpc EXCEPT ![c] = "created"]
    /\ UNCHANGED <<lastID, pending, lockR, identifier, chanbuf, got, result,
                   lateSignal, envVars, resolverVars>>
    /\ UNCHANGED apiVars

\* ------------------------------------------------------- Request.AwaitReply
\* timeoutTimer := time.NewTimer(req.timeout); enter the select.
AwaitStart(c) ==
    /\ cpc[c] = "created"
    /\ cpc' = [cpc EXCEPT ![c] = "select"]
    /\ UNCHANGED <<mgrVars, identifier, chanbuf, got, result, lateSignal,
                   envVars, resolverVars>>
    /\ UNCHANGED apiVars

\* Faulty variant of ReadyCases: the select has no timer case.
ReadyCasesNoTimer(c) ==
    (IF ctxDone[c] THEN {"ctx"} ELSE {})
    \cup (IF chanbuf[c] # <<>> THEN {"reply"} ELSE {})

\* The cases of the select that are ready without a sender arriving.
ReadyCases(c) ==
    (IF ctxDone[c] THEN {"ctx"} ELSE {})
    \cup (IF timerFired[c] THEN {"timer"} ELSE {})
    \cup (IF chanbuf[c] # <<>> THEN {"reply"} ELSE {})

\* select picks one ready case (Go picks among the ready ones at random).
Select(c) ==
    /\ cpc[c] = "select"
    /\ \E case \in ReadyCases(c) :
        IF case = "ctx" THEN
            /\ cpc' = [cpc EXCEPT ![c] = "ctxDeregister"]
            /\ UNCHANGED <<chanbuf, got>>
        ELSE IF case = "timer" THEN
            /\ cpc' = [cpc EXCEPT ![c] = "timerDeregister"]
            /\ UNCHANGED <<chanbuf, got>>
        ELSE
            /\ cpc' = [cpc EXCEPT ![c] = "gotReply"]
            /\ got' = [got EXCEPT ![c] = Head(chanbuf[c])]
            /\ chanbuf' = [chanbuf EXCEPT ![c] = Tail(chanbuf[c])]
    /\ UNCHANGED <<mgrVars, identifier, result, lateSignal, envVars, resolverVars>>
    /\ UNCHANGED apiVars

\* req.manager.deregister(req.identifier): Lock and delete.
AwaitDeregister(c) ==
    /\ cpc[c] \in {"ctxDeregister", "timerDeregister"}
    /\ CanLock
    /\ lockW' = CallerProc(c)
    /\ pending' = Delete(pending, identifier[c])
    /\ cpc' = [cpc EXCEPT ![c] = IF cpc[c] = "ctxDeregister" THEN "ctxUnlock"
                                                             ELSE "timerUnlock"]
    /\ UNCHANGED <<lastID, lockR, identifier, chanbuf, got, result, lateSignal,
                   envVars, resolverVars>>
    /\ UNCHANGED apiVars

\* deregister's Unlock, then the return of the ctx or the timer case.
AwaitReturnSignal(c) ==
    /\ cpc[c] \in {"ctxUnlock", "timerUnlock"}
    /\ lockW' = NoProc
    /\ result' = [result EXCEPT ![c] = IF cpc[c] = "ctxUnlock" THEN CanceledResult
                                                               ELSE TimeoutResult]
    /\ cpc' = [cpc EXCEPT ![c] = "done"]
    /\ UNCHANGED <<lastID, pending, lockR, identifier, chanbuf, got, lateSignal,
                   envVars, resolverVars>>
    /\ UNCHANGED apiVars

\* case reply := <-req.reply: timeoutTimer.Stop() and the return; the local
\* reply ends with the call.
AwaitReturnReply(c) ==
    /\ cpc[c] = "gotReply"
    /\ result' = [result EXCEPT ![c] = ReplyResult(got[c])]
    /\ got' = [got EXCEPT ![c] = NoReply]
    /\ cpc' = [cpc EXCEPT ![c] = "done"]
    /\ UNCHANGED <<mgrVars, identifier, chanbuf, lateSignal, envVars, resolverVars>>
    /\ UNCHANGED apiVars

\* ------------------------------------------------------------- environment
\* The caller's context is canceled (or its deadline passes).  Only the select
\* reads the context: a context canceled before AwaitReply is the one canceled
\* as the select is entered, and a cancellation after the return reaches nothing.
CtxFire(c) ==
    /\ cpc[c] \in {"select", "gotReply"}
    /\ ~ctxDone[c]
    /\ ctxDone' = [ctxDone EXCEPT ![c] = TRUE]
    /\ lateSignal' = [lateSignal EXCEPT ![c] = @ \/ cpc[c] = "gotReply"]
    /\ UNCHANGED <<mgrVars, cpc, identifier, chanbuf, got, result, timerFired,
                   resolverVars>>
    /\ UNCHANGED apiVars

\* Faulty variant of TimerFire: the timer is started by Create.
TimerFireSinceCreate(c) ==
    /\ cpc[c] \in {"created", "select", "gotReply"}
    /\ ~timerFired[c]
    /\ timerFired' = [timerFired EXCEPT ![c] = TRUE]
    /\ lateSignal' = [lateSignal EXCEPT ![c] = @ \/ cpc[c] = "gotReply"]
    /\ UNCHANGED <<mgrVars, cpc, identifier, chanbuf, got, result, ctxDone,
                   resolverVars>>
    /\ UNCHANGED apiVars

\* The timer started by AwaitReply elapses.  Only the select reads it, and the
\* return stops it.
TimerFire(c) ==
    /\ cpc[c] \in {"select", "gotReply"}
    /\ ~timerFired[c]
    /\ timerFired' = [timerFired EXCEPT ![c] = TRUE]
    /\ lateSignal' = [lateSignal EXCEPT ![c] = @ \/ cpc[c] = "gotReply"]
    /\ UNCHANGED <<mgrVars, cpc, identifier, chanbuf, got, result, ctxDone,
                   resolverVars>>
    /\ UNCHANGED apiVars

\* ------------------------------------- RequestManager.Fulfill and .Fail
\* The call with its arguments; RLock; req, exists := pending[identifier].
ResolveLookup(r) ==
    /\ rpc[r] = "idle"
    /\ \A q \in Resolvers : q < r => rpc[q] # "idle"
    /\ CanRLock
    /\ \E id \in CallIds :
        \E op \in {"Fulfill", "Fail"} :
            \E arg \in (IF op = "Fulfill" THEN Payloads ELSE Errors) :
                /\ rcall' = [rcall EXCEPT ![r] = [op |-> op, id |-> id, arg |-> arg]]
                /\ rreq' = [rreq EXCEPT ![r] = Lookup(pending, id)]
    /\ lockR' = lockR \cup {ResolverProc(r)}
    /\ rpc' = [rpc EXCEPT ![r] = "runlock"]
    /\ UNCHANGED <<lastID, pending, lockW, callerVars, envVars, rret>>
    /\ UNCHANGED apiVars

\* Faulty variant of ResolveCheck: the read lock is kept (the RUnlock is
\* deferred to the return) while the call goes on to its send.
ResolveCheckKeepsLock(r) ==
    /\ rpc[r] = "runlock"
    /\ IF rreq[r] = NoReq
       THEN /\ rpc' = [rpc EXCEPT ![r] = "done"]
            /\ rret' = [rret EXCEPT ![r] = "false"]
            /\ lockR' = lockR \ {ResolverProc(r)}
       ELSE /\ rpc' = [rpc EXCEPT ![r] = "send"]
            /\ UNCHANGED <<rret, lockR>>
    /\ UNCHANGED <<lastID, pending, lockW, callerVars, envVars, rcall, rreq>>
    /\ UNCHANGED apiVars

\* RUnlock; if !exists { return false }
ResolveCheck(r) ==
    /\ rpc[r] = "runlock"
    /\ lockR' = lockR \ {ResolverProc(r)}
    /\ IF rreq[r] = NoReq
       THEN /\ rpc' = [rpc EXCEPT ![r] = "done"]
            /\ rret' = [rret EXCEPT ![r] = "false"]
       ELSE /\ rpc' = [rpc EXCEPT ![r] = "send"]
            /\ UNCHANGED rret
    /\ UNCHANGED <<lastID, pending, lockW, callerVars, envVars, rcall, rreq>>
    /\ UNCHANGED apiVars

\* Faulty variant of CanSend: the channel has a buffer of one (make(chan reply, 1)).
CanSendBuffered(c) == cpc[c] = "select" \/ Len(chanbuf[c]) < ReplyChanCap + 1

\* A send on req.reply can proceed when the receiver waits in its select
\* or the channel's buffer has room.
CanSend(c) == cpc[c] = "select" \/ Len(chanbuf[c]) < ReplyChanCap

\* req.reply <- reply{...}: hands the value to the receiver waiting in its
\* select, which thereby takes the reply case; else buffers it.
ResolveSend(r) ==
    /\ rpc[r] = "send"
    /\ LET c == rreq[r]
           v == ReplyOf(rcall[r].op, rcall[r].arg)
       IN  /\ CanSend(c)
           /\ IF cpc[c] = "select" /\ chanbuf[c] = <<>>
              THEN /\ got' = [got EXCEPT ![c] = v]
                   /\ cpc' = [cpc EXCEPT ![c] = "gotReply"]
                   /\ UNCHANGED chanbuf
              ELSE /\ chanbuf' = [chanbuf EXCEPT ![c] = Append(@, v)]
                   /\ UNCHANGED <<got, cpc>>
    /\ rpc' = [rpc EXCEPT ![r] = "deregister"]
    /\ UNCHANGED <<mgrVars, identifier, result, lateSignal, envVars, rcall, rreq, rret>>
    /\ UNCHANGED apiVars

\* manager.deregister(identifier): Lock and delete.
ResolveDeregister(r) ==
    /\ rpc[r] = "deregister"
    /\ CanLock
    /\ lockW' = ResolverProc(r)
    /\ pending' = Delete(pending, rcall[r].id)
    /\ rpc' = [rpc EXCEPT ![r] = "unlock"]
    /\ UNCHANGED <<lastID, lockR, callerVars, envVars, rcall, rreq, rret>>
    /\ UNCHANGED apiVars

\* deregister's Unlock; return true
ResolveReturn(r) ==
    /\ rpc[r] = "unlock"
    /\ lockW' = NoProc
    /\ rpc' = [rpc EXCEPT ![r] = "done"]
    /\ rret' = [rret EXCEPT ![r] = "true"]
    /\ rreq' = [rreq EXCEPT ![r] = NoReq]
    /\ UNCHANGED <<lastID, pending, lockR, callerVars, envVars, rcall>>
    /\ UNCHANGED apiVars

\* ---------------------------------------------------------- specification
CallerStep(c) ==
    \/ CreateRegister(c)
    \/ CreateReturn(c)
    \/ AwaitStart(c)
    \/ Select(c)
    \/ AwaitDeregister(c)
    \/ AwaitReturnSignal(c)
    \/ AwaitReturnReply(c)

ResolverStep(r) ==
    \/ ResolveLookup(r)
    \/ ResolveCheck(r)
    \/ ResolveSend(r)
    \/ ResolveDeregister(r)
    \/ ResolveReturn(r)

Next ==
    \/ \E c \in Callers : CallerStep(c)
    \/ \E c \in Callers : CtxFire(c)
    \/ \E c \in Callers : TimerFire(c)
    \/ \E r \in Resolvers : ResolverStep(r)

Spec == Init /\ [][Next]_vars

\* Every goroutine that can run does run, and a started timer elapses;
\* the context is the caller's to cancel or not.
FairSpec ==
    /\ Spec
    /\ \A c \in Callers : WF_vars(CallerStep(c))
    /\ \A c \in Callers : WF_vars(TimerFire(c))
    /\ \A r \in Resolvers : WF_vars(ResolverStep(r))

\* ------------------------------------------------------------ resolver.Login
\* if session.UserType != api.UtGuest { return nil, wwr.ReqErr{...} }
LoginCheckSession ==
    /\ login.pc = "start"
    /\ IF login.session.UserType # UtGuest
       THEN login' = [login EXCEPT !.pc = "done", !.ret = "ErrInvalidRequest"]
       ELSE login' = [login EXCEPT !.pc = "authenticate"]
    /\ UNCHANGED <<rmVars, vld>>

\* user, actualPassword, err := rsv.engine.AuthenticateUser(params.Username);
\* if err != nil { return nil, err }
LoginAuthenticate ==
    /\ login.pc = "authenticate"
    /\ \/ \E e \in EngineErrors :
             login' = [login EXCEPT !.calls = Append(@, "AuthenticateUser"),
                                    !.err = e, !.pc = "done", !.ret = e]
       \/ \E u \in EngineUsers, h \in StoredPasswords :
             login' = [login EXCEPT !.calls = Append(@, "AuthenticateUser"),
                                    !.err = "nil", !.user = u,
                                    !.actualPassword = h, !.pc = "compare"]
    /\ UNCHANGED <<rmVars, vld>>

\* Faulty variant of LoginCompare: the result of Compare is not looked at.
LoginCompareIgnored ==
    /\ login.pc = "compare"
    /\ \E ok \in {"true", "false"} :
          login' = [login EXCEPT !.calls = Append(@, "Compare"),
                                 !.matched = ok, !.pc = "createSession"]
    /\ UNCHANGED <<rmVars, vld>>

\* if !rsv.passwordHasher.Compare(params.Password, actualPassword) {
\*     return nil, engiface.NewError(engiface.ErrWrongCredentials) }
LoginCompare ==
    /\ login.pc = "compare"
    /\ \E ok \in {"true", "false"} :
          IF ok = "false"
          THEN login' = [login EXCEPT !.calls = Append(@, "Compare"),
                                      !.matched = ok, !.pc = "done",
                                      !.ret = "ErrWrongCredentials"]
          ELSE login' = [login EXCEPT !.calls = Append(@, "Compare"),
                                      !.matched = ok, !.pc = "createSession"]
    /\ UNCHANGED <<rmVars, vld>>

\* if err := connection.CreateSession(&sessinfo.SessionInfo{...}); err != nil {
\*     return nil, rsv.logInternalError(err) }; return nil, nil
LoginCreateSession ==
    /\ login.pc = "createSession"
    /\ \E e \in SessionErrors :
          login' = [login EXCEPT !.calls = Append(@, "CreateSession"),
                                 !.created = SessionInfo(login.user),
                                 !.pc = "done",
                                 !.ret = IF e = "nil" THEN "nil" ELSE "ErrInternal"]
    /\ UNCHANGED <<rmVars, vld>>

\* One Login call with any session, any parameters.
LoginInit ==
    /\ NewRequestManager
    /\ vld = NoValidation
    /\ \E t \in UserTypes, u \in Usernames, p \in Passwords :
          login = LoginCall(t, u, p)

LoginNext ==
    \/ LoginCheckSession
    \/ LoginAuthenticate
    \/ LoginCompare
    \/ LoginCreateSession

LoginSpec == LoginInit /\ [][LoginNext]_vars

\* -------------------------------------------------- validator.MessageContents
MessageContents ==
    /\ vld.pc = "start"
    /\ vld' = [vld EXCEPT !.pc = "done",
                          !.ret = MessageContentsResult(vld.length,
                                                        vld.MinMessageLength,
                                                        vld.MaxMessageLength)]
    /\ UNCHANGED <<rmVars, login>>

\* One MessageContents call with any limits and contents of any length.
ValidatorInit ==
    /\ NewRequestManager
    /\ login = NoLogin
    /\ \E l \in Lengths, min \in Limits, max \in Limits :
          vld = ValidationCall(l, min, max)

ValidatorNext == MessageContents

ValidatorSpec == ValidatorInit /\ [][ValidatorNext]_vars

\* RequestManager.PendingRequests and .IsPending, read under the read lock.
PendingRequests == Cardinality(DOMAIN pending)
IsPending(id) == id \in DOMAIN pending

TypeOK ==
    /\ lastID \in 0..NumCallers
    /\ DOMAIN pending \subseteq CallIds
    /\ \A id \in DOMAIN pending : pending[id] \in Callers
    /\ cpc \in [Callers -> {"start", "createUnlock", "created", "select",
                            "ctxDeregister", "timerDeregister", "ctxUnlock",
                            "timerUnlock", "gotReply", "done"}]
    /\ rpc \in [Resolvers -> {"idle", "runlock", "send", "deregister", "unlock", "done"}]
    /\ rreq \in [Resolvers -> Callers \cup {NoReq}]
    /\ rret \in [Resolvers -> {"none", "true", "false"}]

\* ------------------------------------------------------ derived predicates
\* Resolver r has completed its send on the reply channel of c's request.
Delivered(r, c) ==
    \/ rpc[r] \in {"deregister", "unlock"} /\ rreq[r] = c
    \/ rpc[r] = "done" /\ rret[r] = "true" /\ rcall[r].id = identifier[c]

\* AwaitReply of c's request took the ctx or the timer case of its select.
TookSignal(c) ==
    \/ cpc[c] \in {"ctxDeregister", "ctxUnlock", "timerDeregister", "timerUnlock"}
    \/ cpc[c] = "done" /\ result[c] \in {CanceledResult, TimeoutResult}

\* The parties that have claimed c's request.
Winners(c) ==
    {ResolverProc(r) : r \in {q \in Resolvers : Delivered(q, c)}}
    \cup (IF TookSignal(c) THEN {CallerProc(c)} ELSE {})

\* Resolver r found c's request in the table and waits to send on its channel.
Sending(r, c) == rpc[r] = "send" /\ rreq[r] = c

\* ------------------------------------------------------------------ claims
\* C1: for every request at most one of Fulfill, Fail, the timeout and the
\* cancellation claims it, and once AwaitReply has returned every other
\* Fulfill or Fail call on its identifier that got past its lookup has
\* returned false.
C1_ExactlyOnce ==
    \A c \in Callers :
        /\ Cardinality(Winners(c)) <= 1
        /\ cpc[c] = "done" =>
              \A r \in Resolvers :
                  (rcall[r].id = identifier[c] /\ rpc[r] \in {"send", "done"}
                      /\ ResolverProc(r) \notin Winners(c))
                  => rret[r] = "false"

\* C2: a Fulfill or Fail call that has found its request never waits for a
\* reader: whenever it stands at its send, the send can proceed.
C2_SendNeverBlocks ==
    \A r \in Resolvers : rpc[r] = "send" => CanSend(rreq[r])

\* C3: AwaitReply returns Canceled or Timeout only for a request no resolver
\* has delivered to; a signal that fires after a resolver's send completed
\* does not turn the result into Canceled or Timeout.
C3_NoSpuriousSignal ==
    \A c \in Callers :
        /\ (cpc[c] = "done" /\ result[c] \in {CanceledResult, TimeoutResult})
              => \A r \in Resolvers : ~Delivered(r, c)
        /\ (cpc[c] = "done" /\ lateSignal[c])
              => result[c] \notin {CanceledResult, TimeoutResult}

\* C3 witness: a resolver's send completed, the context or the timer fired
\* after it, and AwaitReply returned the reply.
C3_Witness ==
    \E c \in Callers, r \in Resolvers :
        /\ cpc[c] = "done" /\ lateSignal[c] /\ Delivered(r, c)
        /\ result[c] = ReplyResult(ReplyOf(rcall[r].op, rcall[r].arg))

\* C4: once AwaitReply of a request has returned, by whichever path, its
\* identifier is not in the pending table.
C4_ReturnedNotPending ==
    \A c \in Callers : cpc[c] = "done" => ~IsPending(identifier[c])

\* C5: when Fulfill(id, P) races with the cancellation of the same request,
\* the caller gets P or Canceled and neither call is left waiting: once
\* AwaitReply has returned, the Fulfill call is not still at its send.
C5_CancelRaceTerminates ==
    \A c \in Callers, r \in Resolvers :
        (cpc[c] = "done" /\ ctxDone[c] /\ ~timerFired[c]
            /\ rcall[r].op = "Fulfill" /\ rcall[r].id = identifier[c]
            /\ rpc[r] \in {"send", "deregister", "unlock", "done"}
            /\ \A q \in Resolvers : q # r => rcall[q].id # identifier[c])
        => /\ result[c] \in {CanceledResult, ReplyResult(FulfillReply(rcall[r].arg))}
           /\ ~Sending(r, c)

\* C6: once every handle's AwaitReply has returned and no resolver is in the
\* middle of a step it can take, the pending table is empty and no Fulfill
\* or Fail call is blocked.
C6_NoLeak ==
    ((\A c \in Callers : cpc[c] = "done")
        /\ (\A r \in Resolvers : rpc[r] \in {"idle", "send", "done"}))
    => /\ PendingRequests = 0
       /\ \A r \in Resolvers : rpc[r] # "send"

\* What the caller must get back from a delivered call: Fulfill(id, P) gives
\* payload P with a nil error, Fail(id, e) gives the error e.
Matches(call, res) ==
    IF call.op = "Fulfill"
    THEN res = [payload |-> <<"EncodedPayload", call.arg>>, err |-> "nil"]
    ELSE res.err = call.arg

\* C7: an AwaitReply that returned without its context canceled or its timer
\* elapsed returned what a resolver passed for this request: payload P and a
\* nil error for Fulfill(id, P), the error e for Fail(id, e); and whenever a
\* resolver's send was received, AwaitReply returns that call's outcome.
C7_PayloadDelivered ==
    \A c \in Callers :
        /\ (cpc[c] = "done" /\ ~ctxDone[c] /\ ~timerFired[c])
              => \E r \in Resolvers : Delivered(r, c) /\ Matches(rcall[r], result[c])
        /\ \A r \in Resolvers :
              (cpc[c] = "done" /\ Delivered(r, c)) => Matches(rcall[r], result[c])

\* C7 witness: Fulfill(id, "P1") was delivered with no cancellation and no
\* timeout, and AwaitReply returned "P1" with a nil error.
C7_Witness ==
    \E c \in Callers, r \in Resolvers :
        /\ cpc[c] = "done" /\ ~ctxDone[c] /\ ~timerFired[c]
        /\ Delivered(r, c) /\ rcall[r].op = "Fulfill"
        /\ result[c] = [payload |-> <<"EncodedPayload", "P1">>, err |-> "nil"]

\* C8: if no Fulfill or Fail ever finds the request and its context is never
\* canceled, an AwaitReply that has started eventually returns the Timeout
\* error, and the identifier is not pending once AwaitReply has returned.
C8_TimeoutFires ==
    \A c \in Callers :
        ([](~ctxDone[c]) /\ [](\A r \in Resolvers : rreq[r] # c))
        => /\ (cpc[c] = "select") ~> (cpc[c] = "done" /\ result[c] = TimeoutResult)
           /\ [](cpc[c] = "done" => ~IsPending(identifier[c]))

\* C8 witness: AwaitReply returned Timeout for a request no resolver was
\* called for and whose context was not canceled; it is no longer pending.
C8_Witness ==
    \E c \in Callers :
        /\ cpc[c] = "done" /\ result[c] = TimeoutResult /\ ~ctxDone[c]
        /\ \A r \in Resolvers : rcall[r].id # identifier[c]
        /\ ~IsPending(identifier[c])

\* C9: every identifier Create returns, read as a little-endian counter
\* value, is greater than every identifier returned before it, and Create
\* registers it under a key the table does not hold.
C9_IdentifiersIncrease ==
    [][\A c \in Callers :
          (identifier[c] = <<>> /\ identifier'[c] # <<>>)
          => /\ \A b \in Callers :
                   identifier[b] # <<>>
                   => Uint64(identifier'[c]) > Uint64(identifier[b])
             /\ identifier'[c] \notin DOMAIN pending
             /\ Len(identifier'[c]) = 8]_vars

\* C9 witness: two Create calls have returned, with different identifiers,
\* while the request of the first is still pending.
C9_Witness ==
    \E b, c \in Callers :
        /\ b # c /\ cpc[b] # "start" /\ cpc[c] \notin {"start", "createUnlock"}
        /\ Uint64(identifier[b]) < Uint64(identifier[c])
        /\ IsPending(identifier[b]) /\ IsPending(identifier[c])

\* C10: a Fulfill or Fail call whose identifier is not in the pending table
\* finds nothing, returns false, and none of its steps changes the table,
\* the counter, a reply channel or a caller.
C10_AbsentIsNoOp ==
    [][\A r \in Resolvers :
          /\ (rpc[r] = "idle" /\ rpc'[r] # "idle" /\ ~IsPending(rcall'[r].id))
                => /\ rreq'[r] = NoReq
                   /\ UNCHANGED <<lastID, pending, callerVars>>
          /\ (rpc[r] = "runlock" /\ rreq[r] = NoReq /\ rpc'[r] # "runlock")
                => /\ rpc'[r] = "done" /\ rret'[r] = "false"
                   /\ UNCHANGED <<lastID, pending, callerVars>>]_vars

\* C10 witness: one call returned false for an identifier Create never
\* assigned, another for the identifier of a request that had timed out.
C10_Witness ==
    \E r, q \in Resolvers, c \in Callers :
        /\ rpc[r] = "done" /\ rret[r] = "false" /\ rcall[r].id = PutUint64(0)
        /\ rpc[q] = "done" /\ rret[q] = "false" /\ rcall[q].id = identifier[c]
        /\ cpc[c] = "done" /\ result[c] = TimeoutResult

\* C11: a step leaves every other request alone: the table entry of a
\* pending request B goes only by B's own AwaitReply or by a Fulfill or Fail
\* called with B's identifier, a reply reaches B's AwaitReply only from such
\* a call, and a request stays pending from Create until such an event.
C11_OthersUntouched ==
    [][\A b \in Callers :
          /\ (IsPending(identifier[b]) /\ ~(identifier'[b] \in DOMAIN pending'))
                => \/ cpc[b] \in {"ctxDeregister", "timerDeregister"} /\ cpc'[b] # cpc[b]
                   \/ \E r \in Resolvers :
                         /\ rpc[r] = "deregister" /\ rpc'[r] = "unlock"
                         /\ rcall[r].id = identifier[b]
          /\ (got'[b] # got[b] /\ cpc[b] = "select")
                => \E r \in Resolvers :
                      /\ rpc[r] = "send" /\ rpc'[r] = "deregister"
                      /\ rcall[r].id = identifier[b]
                      /\ got'[b] = ReplyOf(rcall[r].op, rcall[r].arg)
          /\ (cpc[b] = "createUnlock" /\ cpc'[b] = "created")
                => IsPending(identifier[b])]_vars

\* C11 witness: request A has been canceled or timed out and removed, a
\* call on A's identifier has returned, and request B is still pending with
\* its AwaitReply waiting.
C11_Witness ==
    \E a, b \in Callers, r \in Resolvers :
        /\ a # b /\ cpc[a] = "done" /\ TookSignal(a) /\ ~IsPending(identifier[a])
        /\ rpc[r] = "done" /\ rcall[r].id = identifier[a]
        /\ cpc[b] = "select" /\ IsPending(identifier[b])

\* C12: every AwaitReply that has started eventually returns, whatever the
\* resolvers and the context do.
C12_AwaitReturns ==
    \A c \in Callers : (cpc[c] = "select") ~> (cpc[c] = "done")

\* C12 witness: AwaitReply returned by its timer while a resolver that had
\* found the request still waits at its send.
C12_Witness ==
    \E c \in Callers, r \in Resolvers :
        cpc[c] = "done" /\ result[c] = TimeoutResult /\ Sending(r, c)

\* C13: as long as AwaitReply of a created request has not been called its
\* timer has not elapsed, it has no outcome, and it is still in the table.
C13_ClockStartsAtAwait ==
    \A c \in Callers :
        cpc[c] \in {"start", "createUnlock", "created"}
        => /\ ~timerFired[c]
           /\ result[c] = NoResult
           /\ cpc[c] = "created" => IsPending(identifier[c])

\* C13 witness: a request created first still waits for its AwaitReply,
\* pending, after a request created later has timed out.
C13_Witness ==
    \E b, c \in Callers :
        /\ cpc[c] = "created" /\ IsPending(identifier[c])
        /\ Uint64(identifier[c]) < Uint64(identifier[b])
        /\ cpc[b] = "done" /\ result[b] = TimeoutResult

\* The reply a call must have handed over: Fulfill(id, P) the payload P with
\* no error, Fail(id, e) no payload with the error e.
Passed(call, rep) ==
    IF call.op = "Fulfill"
    THEN rep = [Reply |-> <<"EncodedPayload", call.arg>>, Error |-> "nil"]
    ELSE rep = [Reply |-> NilPayload, Error |-> call.arg]

\* C14: when Fulfill or Fail has returned true, the identifier is not in the
\* table and the AwaitReply of its request has received what the call passed.
C14_TrueMeansResolved ==
    \A r \in Resolvers :
        (rpc[r] = "done" /\ rret[r] = "true")
        => /\ ~IsPending(rcall[r].id)
           /\ \E c \in Callers :
                 /\ identifier[c] = rcall[r].id
                 /\ \/ cpc[c] = "gotReply" /\ Passed(rcall[r], got[c])
                    \/ cpc[c] = "done" /\ Matches(rcall[r], result[c])

\* C14 witness: Fail(id, "E1") returned true and AwaitReply returned "E1".
C14_Witness ==
    \E r \in Resolvers, c \in Callers :
        /\ rpc[r] = "done" /\ rret[r] = "true"
        /\ rcall[r].op = "Fail" /\ rcall[r].arg = "E1"
        /\ identifier[c] = rcall[r].id /\ cpc[c] = "done" /\ result[c].err = "E1"

\* The goroutine that holds the lock is at a step that releases it.
HolderReleases ==
    /\ \A c \in Callers :
          lockW = CallerProc(c)
          => cpc[c] \in {"createUnlock", "ctxUnlock", "timerUnlock"}
             /\ ENABLED CallerStep(c)
    /\ \A r \in Resolvers :
          (lockW = ResolverProc(r) \/ ResolverProc(r) \in lockR)
          => rpc[r] \in {"runlock", "unlock"} /\ ENABLED ResolverStep(r)

\* C15: no goroutine holds the manager lock while it waits on a reply
\* channel (a resolver at its send, a caller in its select), and whoever
\* holds the lock can release it at once, so Create and deregister get it.
C15_NoLockWhileWaiting ==
    /\ \A r \in Resolvers :
          rpc[r] = "send" => lockW # ResolverProc(r) /\ ResolverProc(r) \notin lockR
    /\ \A c \in Callers :
          cpc[c] \in {"select", "gotReply"} => lockW # CallerProc(c)
    /\ HolderReleases

\* C15 witness: a Fulfill or Fail call is stalled at its send, its request's
\* AwaitReply having returned, while another caller holds the lock in Create.
C15_Witness ==
    \E r \in Resolvers, c, b \in Callers :
        /\ Sending(r, c) /\ cpc[c] = "done"
        /\ lockW = CallerProc(b) /\ cpc[b] = "createUnlock"

\* C18: AwaitReply never returns a nil payload with a nil error: the timeout
\* returns an empty payload, a reply without error returns a payload that is
\* not nil, and a nil payload comes only with an error.
C18_NeverNilNil ==
    \A c \in Callers :
        cpc[c] = "done"
        => /\ ~(result[c].payload = NilPayload /\ result[c].err = "nil")
           /\ result[c].err = "Timeout" => result[c].payload = EmptyPayload
           /\ result[c].err = "nil" => result[c].payload # NilPayload
           /\ result[c].payload = NilPayload => result[c].err # "nil"

\* C18 witness: Fail(id, nil) was delivered, a reply with neither payload nor
\* error, and AwaitReply returned the empty payload with a nil error.
C18_Witness ==
    \E c \in Callers, r \in Resolvers :
        /\ cpc[c] = "done" /\ Delivered(r, c)
        /\ rcall[r].op = "Fail" /\ rcall[r].arg = "nil"
        /\ result[c] = [payload |-> EmptyPayload, err |-> "nil"]

\* The calls Login has made so far.
Called(name) == \E i \in 1..Len(login.calls) : login.calls[i] = name

\* C16: Login calls CreateSession only for a guest session whose
\* AuthenticateUser succeeded and whose password matched; a Login that
\* returned on an error path (already logged in, authentication error, wrong
\* password) returned an error without calling CreateSession, and a non-guest
\* is rejected without any call to the engine.
C16_LoginGuards ==
    /\ Called("CreateSession")
          => /\ login.session.UserType = UtGuest
             /\ login.err = "nil" /\ login.matched = "true"
             /\ login.created = SessionInfo(login.user)
    /\ login.session.UserType # UtGuest /\ login.pc # "start"
          => /\ login.pc = "done" /\ login.ret = "ErrInvalidRequest"
             /\ login.calls = <<>>
    /\ login.pc = "done" /\ login.err \in EngineErrors
          => login.ret = login.err /\ ~Called("Compare") /\ ~Called("CreateSession")
    /\ login.pc = "done" /\ login.matched = "false"
          => login.ret = "ErrWrongCredentials" /\ ~Called("CreateSession")
    /\ login.pc = "done" /\ login.ret = "nil"
          => login.calls = <<"AuthenticateUser", "Compare", "CreateSession">>

\* C16 witness: a guest logged in as an admin, the session was created.
C16_Witness ==
    /\ login.pc = "done" /\ login.ret = "nil"
    /\ login.session.UserType = UtGuest
    /\ login.created.UserType = "admin"

\* The length of the contents against a limit, as numbers.
LenBelow(length, limit) == length.wraps = 0 /\ length.low < limit
LenAbove(length, limit) == length.wraps > 0 \/ length.low > limit

\* C17: MessageContents returns nil exactly when
\* MinMessageLength <= len(contents) <= MaxMessageLength, the too-short error
\* when the length is below the minimum, and the too-long error when it is
\* above the maximum and not below the minimum.
C17_LengthWithinLimits ==
    vld.pc = "done"
    => LET below == LenBelow(vld.length, vld.MinMessageLength)
           above == LenAbove(vld.length, vld.MaxMessageLength)
       IN  /\ vld.ret = "nil" <=> ~below /\ ~above
           /\ below => vld.ret = "too short"
           /\ above /\ ~below => vld.ret = "too long"

====
